---- MODULE Spec2Model ----
(***************************************************************************)
(* Model of the asynchronous Gmail/Calendar import pipeline of footprint:  *)
(* the ImportJobProcessor state machine (services/import_processor.py),    *)
(* the routes that start, poll and fetch a job (api/routes/import_routes), *)
(* the job/result records of the single-table store (services/dynamodb.py) *)
(* and the evidence aggregation and candidate building they share.         *)
(*                                                                         *)
(* One user and one import job are modelled.  Every call to an external    *)
(* collaborator (the store, the Google clients, the device-token lookup)   *)
(* either returns or raises; a raising store write leaves the record as it *)
(* was.  Timestamps are readings of the clock `now`.  The calendar_year    *)
(* field of the progress record is left out: nothing in the pipeline reads *)
(* it back.                                                                *)
(***************************************************************************)
EXTENDS Integers, Sequences, FiniteSets, TLC

VARIABLES
    connected,          \* Google tokens stored for the user (google_service)
    places,             \* visited-place record per country code: absent or active
    job,                \* the persisted import-job record, or NoJob
    results,            \* the persisted import-results record, or NoResults
    pc,                 \* position of the background task in process()
    handler,            \* where _fail was called from: "try" or "except"
    err,                \* message of the exception being handled / passed to _fail
    progress,           \* self.progress of the processor
    last_update_time,   \* self._last_update_time
    now,                \* the wall clock
    existing_countries, \* local of process(): codes read from the store at line 70
    messages,           \* items the running parser iterates over
    idx,                \* number of items the running parser has processed
    parsed,             \* results the running parser has collected
    email_countries,    \* local of process(): evidence returned by _scan_emails
    calendar_countries, \* local of process(): evidence returned by _scan_calendar
    candidates,         \* local of process(): list returned by _build_candidates
    notified,           \* payload kinds handed to apns_service.send_to_user, in order
    calls,              \* external collaborators process() has called so far
    hist,               \* history: facts about the run the claims refer to
    response            \* last HTTP response produced by a route

vars == <<connected, places, job, results, pc, handler, err, progress,
          last_update_time, now, existing_countries, messages, idx, parsed,
          email_countries, calendar_countries, candidates, notified, calls,
          hist, response>>

(***************************************************************************)
(* Bounds of the model                                                     *)
(***************************************************************************)
MaxEmails == 2      \* messages a mail search returns at most
MaxEvents == 2      \* events a calendar listing returns at most
MaxTime == 2        \* seconds the clock advances during a run
MaxCount == 10      \* largest per-source count given to get_confidence_score alone
MaxEvidence == 5    \* largest per-code count of an evidence map given to the builder alone
MaxItems == 7       \* longest item list given to an aggregator alone
MaxWords == 5       \* longest text, in words, given to the extractor alone
MaxSelection == 2   \* most country codes in one confirm request
MaxLongTime == 4    \* seconds the clock advances during a run watched for its throttle
MaxQueries == 3     \* query templates a mail search issues
MaxPage == 2        \* messages one query returns at most
MaxResults == 2     \* largest max_results given to a mail search alone
MaxMessages == 2    \* messages given to the email parser's loop alone
MaxDualTime == 2    \* seconds the clock advances while two jobs run

(***************************************************************************)
(* Program constants                                                       *)
(***************************************************************************)
UpdateInterval == 2     \* self._update_interval
MaxSamples == 5         \* samples kept per code by the aggregators
MaxEmailSamples == 3    \* email samples merged into a candidate
MaxCalendarSamples == 2 \* calendar samples merged into a candidate

None == "None"
\* No record under the key.
NoJob == [exists |-> FALSE]
NoResults == [exists |-> FALSE]

\* An optional timestamp: <<>> when unset, <<t>> when set to t.
Unset == <<>>

\* JobStatus
PENDING == "pending"
SCANNING_EMAILS == "scanning_emails"
SCANNING_CALENDAR == "scanning_calendar"
PROCESSING == "processing"
COMPLETED == "completed"
FAILED == "failed"

JobStatus == {PENDING, SCANNING_EMAILS, SCANNING_CALENDAR, PROCESSING, COMPLETED, FAILED}

\* ImportJobProgress()
ImportJobProgress ==
    [emails_scanned |-> 0, emails_total |-> 0, events_scanned |-> 0,
     events_total |-> 0, current_step |-> "initializing"]

\* Country codes the sources of this model mention.
Codes == {"FR", "JP"}

\* get_country_name: the registry name of a code, None for a code it lacks.
\* The code is upper-cased before the lookup.
get_country_name(c) ==
    CASE c = "FR" -> "France"
      [] c = "fr" -> "France"
      [] c = "JP" -> "Japan"
      [] OTHER -> None

\* Messages a mail search can return: what the parser extracts from each.
\* An empty country set is an item the parser drops (detail fetch failed, not
\* travel related, or nothing extracted).
EmailUniverse ==
    { [id |-> "m1", countries |-> {"FR"}, flight |-> TRUE],
      [id |-> "m2", countries |-> {"FR", "JP"}, flight |-> FALSE],
      [id |-> "m3", countries |-> {}, flight |-> FALSE] }

\* Events a calendar listing can return.
CalendarUniverse ==
    { [id |-> "e1", countries |-> {"JP"}, flight |-> FALSE],
      [id |-> "e2", countries |-> {"FR", "JP"}, flight |-> TRUE],
      [id |-> "e3", countries |-> {}, flight |-> FALSE] }

\* Sequences of pairwise distinct elements of S, of length at most n.
DistinctSeqs(S, n) ==
    UNION { { s \in [1..k -> S] : \A i, j \in 1..k : i # j => s[i] # s[j] } : k \in 0..n }

Min(a, b) == IF a < b THEN a ELSE b

(***************************************************************************)
(* Evidence aggregation                                                    *)
(***************************************************************************)
\* An evidence map with no key.
EmptyEvidence == [c \in {} |-> [count |-> 0, samples |-> <<>>]]

\* The sample dict an aggregator stores for an item.
SourceSample(item, source_type) ==
    [id |-> item.id, source_type |-> source_type, flight |-> item.flight]

\* Faulty variant of AggregateItem: when 5 samples are stored the oldest one
\* makes room for the new one.
AggregateItem_latest(countries, item, source_type) ==
    [c \in (DOMAIN countries) \cup item.countries |->
        IF c \in item.countries
        THEN LET old == IF c \in DOMAIN countries
                        THEN countries[c]
                        ELSE [count |-> 0, samples |-> <<>>]
             IN [count |-> old.count + 1,
                 samples |-> IF Len(old.samples) < MaxSamples
                             THEN Append(old.samples, SourceSample(item, source_type))
                             ELSE Append(Tail(old.samples), SourceSample(item, source_type))]
        ELSE countries[c]]

\* One iteration of an aggregator's outer loop: every code the item carries
\* gets its count incremented and, while fewer than 5 are stored, a sample.
AggregateItem(countries, item, source_type) ==
    [c \in (DOMAIN countries) \cup item.countries |->
        IF c \in item.countries
        THEN LET old == IF c \in DOMAIN countries
                        THEN countries[c]
                        ELSE [count |-> 0, samples |-> <<>>]
             IN [count |-> old.count + 1,
                 samples |-> IF Len(old.samples) < MaxSamples
                             THEN Append(old.samples, SourceSample(item, source_type))
                             ELSE old.samples]
        ELSE countries[c]]

RECURSIVE AggregateFrom(_, _, _, _)
AggregateFrom(countries, items, k, source_type) ==
    IF k > Len(items)
    THEN countries
    ELSE AggregateFrom(AggregateItem(countries, items[k], source_type), items, k + 1, source_type)

\* email_parser.aggregate_email_countries, used by the synchronous routes.
aggregate_email_countries(emails) == AggregateFrom(EmptyEvidence, emails, 1, "email")

\* calendar_parser.aggregate_calendar_countries, used by the synchronous routes.
aggregate_calendar_countries(events) == AggregateFrom(EmptyEvidence, events, 1, "calendar")

\* import_processor.aggregate_email_countries, used by the job.
job_aggregate_email_countries(emails) ==
    [raised |-> FALSE, value |-> AggregateFrom(EmptyEvidence, emails, 1, "email")]

\* import_processor.aggregate_calendar_countries, used by the job.  It reads
\* event.summary, an attribute CalendarEventResult does not have (the field
\* is called title): building the first sample raises AttributeError, which
\* happens as soon as one event carries a country.
job_aggregate_calendar_countries(events) ==
    IF \E k \in 1..Len(events) : events[k].countries # {}
    THEN [raised |-> TRUE, value |-> EmptyEvidence]
    ELSE [raised |-> FALSE, value |-> EmptyEvidence]

(***************************************************************************)
(* Confidence and candidates                                               *)
(***************************************************************************)
\* Faulty variant of get_confidence_score: the base score is not capped.
get_confidence_score_uncapped(email_count, calendar_count, has_flight) ==
    LET base_score == 50 + (email_count + calendar_count) * 5
    IN IF has_flight THEN Min(base_score + 10, 99) ELSE base_score

\* get_confidence_score, in hundredths.
get_confidence_score(email_count, calendar_count, has_flight) ==
    LET total == email_count + calendar_count
        base_score == Min(50 + total * 5, 90)
    IN IF has_flight THEN Min(base_score + 10, 99) ELSE base_score

\* Faulty variant of Take: the slice keeps the whole list.
Take_all(s, n) == s

\* s[:n]
Take(s, n) == SubSeq(s, 1, Min(n, Len(s)))

\* email_countries.get(code, {"count": 0, "samples": []})
EvidenceGet(countries, code) ==
    IF code \in DOMAIN countries THEN countries[code] ELSE [count |-> 0, samples |-> <<>>]

\* Faulty variant of ImportCandidate: the calendar count is read from the
\* email evidence.
ImportCandidate_mixed(country_code, emails, calendar) ==
    LET email_data == EvidenceGet(emails, country_code)
        calendar_data == EvidenceGet(calendar, country_code)
        samples == Take(email_data.samples, MaxEmailSamples)
                   \o Take(calendar_data.samples, MaxCalendarSamples)
    IN [country_code |-> country_code,
        country_name |-> get_country_name(country_code),
        email_count |-> email_data.count,
        calendar_event_count |-> email_data.count,
        sample_sources |-> samples,
        confidence |-> get_confidence_score(
                           email_data.count, calendar_data.count,
                           \E k \in 1..Len(samples) : samples[k].flight)]

\* The body of the candidate loop for one code with a registry name.
ImportCandidate(country_code, emails, calendar) ==
    LET email_data == EvidenceGet(emails, country_code)
        calendar_data == EvidenceGet(calendar, country_code)
        samples == Take(email_data.samples, MaxEmailSamples)
                   \o Take(calendar_data.samples, MaxCalendarSamples)
    IN [country_code |-> country_code,
        country_name |-> get_country_name(country_code),
        email_count |-> email_data.count,
        calendar_event_count |-> calendar_data.count,
        sample_sources |-> samples,
        confidence |-> get_confidence_score(
                           email_data.count, calendar_data.count,
                           \E k \in 1..Len(samples) : samples[k].flight)]

Total(c) == c.email_count + c.calendar_event_count

\* Faulty variant of InsertCandidate: a candidate goes in front of those with
\* an equal total.
RECURSIVE InsertCandidate_unstable(_, _)
InsertCandidate_unstable(sorted, c) ==
    IF sorted = <<>> THEN <<c>>
    ELSE IF Total(Head(sorted)) > Total(c)
         THEN <<Head(sorted)>> \o InsertCandidate_unstable(Tail(sorted), c)
         ELSE <<c>> \o sorted

\* list.sort(key=total, reverse=True): stable, descending.
RECURSIVE InsertCandidate(_, _)
InsertCandidate(sorted, c) ==
    IF sorted = <<>> THEN <<c>>
    ELSE IF Total(Head(sorted)) >= Total(c)
         THEN <<Head(sorted)>> \o InsertCandidate(Tail(sorted), c)
         ELSE <<c>> \o sorted

RECURSIVE SortCandidates(_)
SortCandidates(cs) ==
    IF cs = <<>> THEN <<>>
    ELSE InsertCandidate(SortCandidates(SubSeq(cs, 1, Len(cs) - 1)), cs[Len(cs)])

\* The candidate loop over `order`, the codes of new_countries in the order
\* the set is iterated; codes without a registry name are skipped.
RECURSIVE CandidateLoop(_, _, _)
CandidateLoop(order, emails, calendar) ==
    IF order = <<>> THEN <<>>
    ELSE LET rest == CandidateLoop(Tail(order), emails, calendar)
         IN IF get_country_name(Head(order)) = None
            THEN rest
            ELSE <<ImportCandidate(Head(order), emails, calendar)>> \o rest

\* Faulty variant of NewCountries: the already-known countries are not subtracted.
NewCountries_all(emails, calendar, existing) ==
    (DOMAIN emails) \cup (DOMAIN calendar)

\* all_countries - existing_countries
NewCountries(emails, calendar, existing) ==
    ((DOMAIN emails) \cup (DOMAIN calendar)) \ existing

\* The orders in which a set can be iterated (a Python set has no fixed one).
Orders(S) == { s \in [1..Cardinality(S) -> S] : \A i, j \in DOMAIN s : i # j => s[i] # s[j] }

\* The members of S in the order `order` lists them.
RECURSIVE Iterate(_, _)
Iterate(S, order) ==
    IF order = <<>> THEN <<>>
    ELSE IF Head(order) \in S
         THEN <<Head(order)>> \o Iterate(S, Tail(order))
         ELSE Iterate(S, Tail(order))

\* ImportJobProcessor._build_candidates; `order` is the iteration order of sets of codes.
build_candidates(emails, calendar, existing, order) ==
    SortCandidates(
        CandidateLoop(Iterate(NewCountries(emails, calendar, existing), order),
                      emails, calendar))

\* The candidate building of the /scan route.
scan_build_candidates(emails, calendar, existing, order) ==
    SortCandidates(
        CandidateLoop(Iterate(NewCountries(emails, calendar, existing), order),
                      emails, calendar))

CandidateCodes(cs) == { cs[k].country_code : k \in 1..Len(cs) }

(***************************************************************************)
(* The store                                                               *)
(***************************************************************************)
\* Messages of the exceptions the collaborators raise, one per call site.
NotConnectedError == "Google account not connected"
ConnectionCheckError == "connection check failed"
VisitedLookupError == "visited places lookup failed"
JobWriteError == "job update failed"
ResultsWriteError == "results write failed"
TokenLookupError == "device token lookup failed"

\* Faulty variant of create_import_job: the record is created already scanning.
create_import_job_scanning ==
    [status |-> SCANNING_EMAILS, progress |-> ImportJobProgress,
     created_at |-> now, updated_at |-> now,
     completed_at |-> Unset, error_message |-> None,
     candidates_count |-> 0, scanned_emails |-> 0, scanned_events |-> 0]

\* db_service.create_import_job: the item put for a new job.
create_import_job ==
    [status |-> PENDING, progress |-> ImportJobProgress,
     created_at |-> now, updated_at |-> now,
     completed_at |-> Unset, error_message |-> None,
     candidates_count |-> 0, scanned_emails |-> 0, scanned_events |-> 0]

\* db_service.update_import_job: SET every given field, and updated_at.
update_import_job(updates) ==
    [f \in DOMAIN job |->
        IF f \in DOMAIN updates THEN updates[f]
        ELSE IF f = "updated_at" THEN now
        ELSE job[f]]

\* db_service.get_user_visited_places(region_type="country"), as the set of
\* region codes of the records it returns: soft-deleted records included.
get_user_visited_places == { c \in Codes : places[c] # "absent" }

\* db_service.store_import_results: the item put.
store_import_results(res) ==
    [candidates |-> res.candidates, scanned_emails |-> res.scanned_emails,
     scanned_events |-> res.scanned_events, created_at |-> now]

Terminal == {COMPLETED, FAILED}
Running == pc \notin {"idle", "done", "crashed"}

(***************************************************************************)
(* Initial state                                                           *)
(***************************************************************************)
Init ==
    /\ connected \in BOOLEAN
    /\ places = [c \in Codes |-> "absent"]
    /\ job = NoJob
    /\ results = NoResults
    /\ pc = "idle"
    /\ handler = "try"
    /\ err = None
    /\ progress = ImportJobProgress
    /\ last_update_time = 0
    /\ now = UpdateInterval
    /\ existing_countries = {}
    /\ messages = <<>>
    /\ idx = 0
    /\ parsed = <<>>
    /\ email_countries = EmptyEvidence
    /\ calendar_countries = EmptyEvidence
    /\ candidates = <<>>
    /\ notified = <<>>
    /\ calls = {}
    /\ hist = [fail_write_raised |-> FALSE, raised_outside |-> <<>>,
               email_raised |-> FALSE, calendar_raised |-> FALSE,
               parser_returned |-> FALSE, events_returned |-> <<>>, added_during_scan |-> {},
               not_connected |-> FALSE, expired |-> FALSE,
               callback_writes |-> <<>>]
    /\ response = [code |-> 0]

(***************************************************************************)
(* Environment: the clock, the user's other requests                       *)
(***************************************************************************)
\* A second passes.  The only code that reads the clock to decide anything is
\* the throttle of the progress callbacks, so the clock advances while a
\* parser loop runs.
Tick ==
    /\ pc \in {"emails_loop", "calendar_loop"}
    /\ now < UpdateInterval + MaxTime
    /\ now' = now + 1
    /\ UNCHANGED <<connected, places, job, results, pc, handler, err, progress,
                   last_update_time, existing_countries, messages, idx, parsed,
                   email_countries, calendar_countries, candidates, notified,
                   calls, hist, response>>

\* DELETE /import/google/disconnect
disconnect_google ==
    /\ connected
    /\ connected' = FALSE
    /\ UNCHANGED <<places, job, results, pc, handler, err, progress,
                   last_update_time, now, existing_countries, messages, idx,
                   parsed, email_countries, calendar_countries, candidates,
                   notified, calls, hist, response>>

\* POST /places: the user records country c as visited.
create_place(c) ==
    /\ places[c] # "active"
    /\ places' = [places EXCEPT ![c] = "active"]
    /\ hist' = [hist EXCEPT !.added_during_scan =
                    IF job # NoJob /\ job.status \in {SCANNING_EMAILS, SCANNING_CALENDAR}
                    THEN @ \cup {c} ELSE @]
    /\ UNCHANGED <<connected, job, results, pc, handler, err, progress,
                   last_update_time, now, existing_countries, messages, idx,
                   parsed, email_countries, calendar_countries, candidates,
                   notified, calls, response>>

\* The result record's TTL passes and the store drops it.
expire_results ==
    /\ results # NoResults
    /\ results' = NoResults
    /\ hist' = [hist EXCEPT !.expired = TRUE]
    /\ UNCHANGED <<connected, places, job, pc, handler, err, progress,
                   last_update_time, now, existing_countries, messages, idx,
                   parsed, email_countries, calendar_countries, candidates,
                   notified, calls, response>>

(***************************************************************************)
(* The processor's store writes                                            *)
(***************************************************************************)
env == <<connected, places>>
scan == <<messages, idx, parsed>>
evidence == <<email_countries, calendar_countries>>

\* _update_status: the record after the write.
update_status(status) ==
    update_import_job([status |-> status, progress |-> progress, updated_at |-> now])

\* Faulty variant of update_progress: the write replaces the record by a fresh one
\* (a put instead of an update), so the status falls back to PENDING.
update_progress_put(p) ==
    update_import_job([status |-> PENDING, progress |-> p, updated_at |-> now])

\* _update_progress: the record after the write of progress p.
update_progress(p) ==
    update_import_job([progress |-> p, updated_at |-> now])

\* Faulty variant of Throttled: the interval is not looked at.
Throttled_never == FALSE

\* _update_progress(force=False) returns without writing.
Throttled == (now - last_update_time) < UpdateInterval

\* Faulty variant of completed_update: the record reports the totals of the
\* lists instead of the numbers of results.
completed_update_totals ==
    update_import_job(
        [status |-> COMPLETED, completed_at |-> <<now>>,
         candidates_count |-> Len(candidates),
         scanned_emails |-> progress.emails_total,
         scanned_events |-> progress.events_total,
         progress |-> progress])

\* The COMPLETED write of process().
completed_update ==
    update_import_job(
        [status |-> COMPLETED, completed_at |-> <<now>>,
         candidates_count |-> Len(candidates),
         scanned_emails |-> progress.emails_scanned,
         scanned_events |-> progress.events_scanned,
         progress |-> progress])

\* The write of _fail.
failed_update(error) ==
    update_import_job([status |-> FAILED, error_message |-> error, completed_at |-> <<now>>])

\* A call outside the two per-source try blocks raises: the exception reaches
\* `except Exception as e` of process(), which calls _fail(str(e)).
Except(msg) ==
    /\ pc' = "fail_write"
    /\ handler' = "except"
    /\ err' = msg
    /\ hist' = [hist EXCEPT !.raised_outside = Append(@, msg)]

(***************************************************************************)
(* POST /import/google/scan/start and start_import_job                     *)
(***************************************************************************)
start_async_scan ==
    /\ pc = "idle"
    /\ job = NoJob
    /\ \/ /\ ~connected
          /\ response' = [code |-> 400, detail |-> NotConnectedError]
          /\ UNCHANGED <<job, pc>>
       \/ /\ connected
          /\ \E ok \in BOOLEAN :
                IF ok
                THEN /\ job' = create_import_job
                     /\ pc' = "check_connection"
                     /\ response' = [code |-> 200, detail |-> PENDING]
                ELSE /\ response' = [code |-> 500, detail |-> JobWriteError]
                     /\ UNCHANGED <<job, pc>>
    /\ UNCHANGED <<env, results, handler, err, progress, last_update_time, now,
                   existing_countries, scan, evidence, candidates, notified,
                   calls, hist>>

(***************************************************************************)
(* ImportJobProcessor.process                                              *)
(***************************************************************************)
\* google_service.get_connection_status and the precondition.
check_connection ==
    /\ pc = "check_connection"
    /\ \E ok \in BOOLEAN :
          IF ~ok THEN Except(ConnectionCheckError)
          ELSE IF connected
               THEN /\ pc' = "get_existing"
                    /\ UNCHANGED <<handler, err, hist>>
               ELSE /\ pc' = "fail_write"
                    /\ handler' = "try"
                    /\ err' = NotConnectedError
                    /\ hist' = [hist EXCEPT !.not_connected = TRUE]
    /\ UNCHANGED <<env, job, results, progress, last_update_time, now,
                   existing_countries, scan, evidence, candidates, notified,
                   calls, response>>

\* existing_countries = {region codes of the user's visited places}
get_existing ==
    /\ pc = "get_existing"
    /\ calls' = calls \cup {"visited_places"}
    /\ \E ok \in BOOLEAN :
          IF ok
          THEN /\ existing_countries' = get_user_visited_places
               /\ pc' = "emails_status"
               /\ UNCHANGED <<handler, err, hist>>
          ELSE /\ Except(VisitedLookupError)
               /\ UNCHANGED existing_countries
    /\ UNCHANGED <<env, job, results, progress, last_update_time, now, scan,
                   evidence, candidates, notified, response>>

\* A _update_status(status) call outside the per-source try blocks.
StatusStep(at, status, next) ==
    /\ pc = at
    /\ \E ok \in BOOLEAN :
          IF ok
          THEN /\ job' = update_status(status)
               /\ pc' = next
               /\ UNCHANGED <<handler, err, hist>>
          ELSE /\ Except(JobWriteError)
               /\ UNCHANGED job
    /\ UNCHANGED <<env, results, progress, last_update_time, now,
                   existing_countries, scan, evidence, candidates, notified,
                   calls, response>>

\* self.progress.current_step = step; self._update_progress(force=True),
\* outside the per-source try blocks.
LabelStep(at, step, next) ==
    /\ pc = at
    /\ progress' = [progress EXCEPT !.current_step = step]
    /\ last_update_time' = now
    /\ \E ok \in BOOLEAN :
          IF ok
          THEN /\ job' = update_progress(progress')
               /\ pc' = next
               /\ UNCHANGED <<handler, err, hist>>
          ELSE /\ Except(JobWriteError)
               /\ UNCHANGED job
    /\ UNCHANGED <<env, results, now, existing_countries, scan, evidence,
                   candidates, notified, calls, response>>

(***************************************************************************)
(* _scan_emails / _scan_calendar and the parsers they run                  *)
(***************************************************************************)
\* Faulty variant of GetClient: the client is obtained outside the try block, so its
\* exception reaches the handler of process() and fails the job.
GetClient_unguarded(at, client, raised, next, skip) ==
    /\ pc = at
    /\ calls' = calls \cup {client}
    /\ \E ok \in BOOLEAN :
          IF ok /\ connected
          THEN /\ pc' = next
               /\ UNCHANGED <<handler, err, hist>>
          ELSE /\ pc' = "fail_write"
               /\ handler' = "except"
               /\ err' = "No Google credentials found for user"
               /\ hist' = [hist EXCEPT ![raised] = TRUE]
    /\ UNCHANGED <<env, job, results, progress, last_update_time, now,
                   existing_countries, scan, evidence, candidates, notified,
                   response>>

\* google_service.get_gmail_service / get_calendar_service inside the try
\* block: without stored credentials it raises; a raise skips the source.
GetClient(at, client, raised, next, skip) ==
    /\ pc = at
    /\ calls' = calls \cup {client}
    /\ \E ok \in BOOLEAN :
          IF ok /\ connected
          THEN /\ pc' = next
               /\ UNCHANGED hist
          ELSE /\ pc' = skip
               /\ hist' = [hist EXCEPT ![raised] = TRUE]
    /\ UNCHANGED <<env, job, results, handler, err, progress, last_update_time,
                   now, existing_countries, scan, evidence, candidates,
                   notified, response>>

\* search_travel_emails / get_calendar_events: the deduplicated item list,
\* capped at the maximum; neither raises.
Search(at, universe, max, loop, done) ==
    /\ pc = at
    /\ \E items \in DistinctSeqs(universe, max) :
          /\ messages' = items
          /\ pc' = IF items = <<>> THEN done ELSE loop
    /\ idx' = 0
    /\ parsed' = <<>>
    /\ UNCHANGED <<env, job, results, handler, err, progress, last_update_time,
                   now, existing_countries, evidence, candidates, notified,
                   calls, hist, response>>

\* One iteration of the parser loop: the progress callback (which sets the
\* counters and calls the throttled _update_progress), then the item itself.
\* A raising callback write ends the parser and is swallowed by the scan.
ParseItem(at, scanned, total, raised, done, skip) ==
    /\ pc = at
    /\ idx < Len(messages)
    /\ LET item == messages[idx + 1]
           p == [progress EXCEPT ![scanned] = idx + 1, ![total] = Len(messages)]
           continue == /\ parsed' = IF item.countries # {} THEN Append(parsed, item) ELSE parsed
                       /\ idx' = idx + 1
                       /\ messages' = messages
                       /\ pc' = IF idx + 1 = Len(messages) THEN done ELSE at
       IN /\ progress' = p
          /\ IF Throttled
             THEN /\ continue
                  /\ UNCHANGED <<job, last_update_time, hist>>
             ELSE /\ last_update_time' = now
                  /\ \E ok \in BOOLEAN :
                        IF ok
                        THEN /\ job' = update_progress(p)
                             /\ hist' = [hist EXCEPT !.callback_writes = Append(@, now)]
                             /\ continue
                        ELSE /\ UNCHANGED job
                             /\ messages' = <<>>
                             /\ idx' = 0
                             /\ parsed' = <<>>
                             /\ pc' = skip
                             /\ hist' = [hist EXCEPT ![raised] = TRUE]
    /\ UNCHANGED <<env, results, handler, err, now, existing_countries,
                   evidence, candidates, notified, calls, response>>

scan_emails_status == StatusStep("emails_status", SCANNING_EMAILS, "emails_label")

scan_emails_label == LabelStep("emails_label", "scanning_emails", "emails_client")

scan_emails_client ==
    GetClient("emails_client", "gmail", "email_raised", "emails_search", "calendar_status")

search_travel_emails ==
    Search("emails_search", EmailUniverse, MaxEmails, "emails_loop", "emails_done")

parse_emails_item ==
    ParseItem("emails_loop", "emails_scanned", "emails_total", "email_raised",
              "emails_done", "calendar_status")

\* After the parser returned: emails_scanned = len(emails), the forced write,
\* the aggregation; all inside the try block.
scan_emails_done ==
    /\ pc = "emails_done"
    /\ progress' = [progress EXCEPT !.emails_scanned = Len(parsed)]
    /\ last_update_time' = now
    /\ \E ok \in BOOLEAN :
          IF ok
          THEN /\ job' = update_progress(progress')
               /\ LET a == job_aggregate_email_countries(parsed)
                  IN /\ email_countries' = a.value
                     /\ hist' = [hist EXCEPT !.email_raised = a.raised]
          ELSE /\ UNCHANGED <<job, email_countries>>
               /\ hist' = [hist EXCEPT !.email_raised = TRUE]
    /\ pc' = "calendar_status"
    /\ messages' = <<>>
    /\ idx' = 0
    /\ parsed' = <<>>
    /\ UNCHANGED <<env, results, handler, err, now, existing_countries,
                   calendar_countries, candidates, notified, calls, response>>

scan_calendar_status == StatusStep("calendar_status", SCANNING_CALENDAR, "calendar_label")

scan_calendar_label == LabelStep("calendar_label", "scanning_calendar", "calendar_client")

scan_calendar_client ==
    GetClient("calendar_client", "calendar", "calendar_raised", "calendar_fetch",
              "processing_status")

get_calendar_events ==
    Search("calendar_fetch", CalendarUniverse, MaxEvents, "calendar_loop", "calendar_done")

\* Faulty variant of parse_calendar_item: the calendar callback writes the
\* email counters.
parse_calendar_item_emails ==
    ParseItem("calendar_loop", "emails_scanned", "emails_total", "calendar_raised",
              "calendar_done", "processing_status")

parse_calendar_item ==
    ParseItem("calendar_loop", "events_scanned", "events_total", "calendar_raised",
              "calendar_done", "processing_status")

\* After the parser returned: events_scanned = len(events), the forced write,
\* the aggregation; all inside the try block.
scan_calendar_done ==
    /\ pc = "calendar_done"
    /\ progress' = [progress EXCEPT !.events_scanned = Len(parsed)]
    /\ last_update_time' = now
    /\ \E ok \in BOOLEAN :
          IF ok
          THEN /\ job' = update_progress(progress')
               /\ LET a == job_aggregate_calendar_countries(parsed)
                  IN /\ calendar_countries' = a.value
                     /\ hist' = [hist EXCEPT !.calendar_raised = a.raised,
                                             !.parser_returned = TRUE,
                                             !.events_returned = parsed]
          ELSE /\ UNCHANGED <<job, calendar_countries>>
               /\ hist' = [hist EXCEPT !.calendar_raised = TRUE,
                                       !.parser_returned = TRUE,
                                       !.events_returned = parsed]
    /\ pc' = "processing_status"
    /\ messages' = <<>>
    /\ idx' = 0
    /\ parsed' = <<>>
    /\ UNCHANGED <<env, results, handler, err, now, existing_countries,
                   email_countries, candidates, notified, calls, response>>

(***************************************************************************)
(* PROCESSING, the result record, COMPLETED and the notification           *)
(***************************************************************************)
processing_status == StatusStep("processing_status", PROCESSING, "processing_label")

\* current_step = "aggregating_results", the forced write, _build_candidates.
processing_build ==
    /\ pc = "processing_label"
    /\ progress' = [progress EXCEPT !.current_step = "aggregating_results"]
    /\ last_update_time' = now
    /\ \E ok \in BOOLEAN :
          IF ok
          THEN /\ job' = update_progress(progress')
               /\ \E order \in Orders(Codes) :
                     candidates' = build_candidates(email_countries, calendar_countries,
                                                    existing_countries, order)
               /\ pc' = "store_results"
               /\ UNCHANGED <<handler, err, hist>>
          ELSE /\ Except(JobWriteError)
               /\ UNCHANGED <<job, candidates>>
    /\ UNCHANGED <<env, results, now, existing_countries, scan, evidence,
                   notified, calls, response>>

\* Faulty variant of store_results: the result record is not written before the
\* COMPLETED write.
store_results_skipped ==
    /\ pc = "store_results"
    /\ pc' = "mark_completed"
    /\ UNCHANGED <<env, job, results, handler, err, hist, progress,
                   last_update_time, now, existing_countries, scan, evidence,
                   candidates, notified, calls, response>>

\* db_service.store_import_results(user_id, job_id, results)
store_results ==
    /\ pc = "store_results"
    /\ \E ok \in BOOLEAN :
          IF ok
          THEN /\ results' = store_import_results(
                                 [candidates |-> candidates,
                                  scanned_emails |-> progress.emails_scanned,
                                  scanned_events |-> progress.events_scanned])
               /\ pc' = "mark_completed"
               /\ UNCHANGED <<handler, err, hist>>
          ELSE /\ Except(ResultsWriteError)
               /\ UNCHANGED results
    /\ UNCHANGED <<env, job, progress, last_update_time, now, existing_countries,
                   scan, evidence, candidates, notified, calls, response>>

\* The COMPLETED write.
mark_completed ==
    /\ pc = "mark_completed"
    /\ \E ok \in BOOLEAN :
          IF ok
          THEN /\ job' = completed_update
               /\ pc' = "notify_completed"
               /\ UNCHANGED <<handler, err, hist>>
          ELSE /\ Except(JobWriteError)
               /\ UNCHANGED job
    /\ UNCHANGED <<env, results, progress, last_update_time, now,
                   existing_countries, scan, evidence, candidates, notified,
                   calls, response>>

\* apns_service.send_to_user(import_completed_notification(...)): the device
\* token lookup is a store read and may raise; send_notification never does.
notify_completed ==
    /\ pc = "notify_completed"
    /\ notified' = Append(notified, "import_completed")
    /\ \E ok \in BOOLEAN :
          IF ok
          THEN /\ pc' = "done"
               /\ UNCHANGED <<handler, err, hist>>
          ELSE Except(TokenLookupError)
    /\ UNCHANGED <<env, job, results, progress, last_update_time, now,
                   existing_countries, scan, evidence, candidates, calls,
                   response>>

(***************************************************************************)
(* ImportJobProcessor._fail                                                *)
(***************************************************************************)
\* An exception leaves _fail: inside the try block of process() it is caught
\* and _fail runs again; inside the except block it ends the task.
FailRaises(msg) ==
    IF handler = "try"
    THEN /\ pc' = "fail_write"
         /\ handler' = "except"
         /\ err' = msg
    ELSE /\ pc' = "crashed"
         /\ UNCHANGED <<handler, err>>

\* The FAILED write of _fail.
fail_write ==
    /\ pc = "fail_write"
    /\ \E ok \in BOOLEAN :
          IF ok
          THEN /\ job' = failed_update(err)
               /\ pc' = "fail_notify"
               /\ UNCHANGED <<handler, err, hist>>
          ELSE /\ FailRaises(JobWriteError)
               /\ hist' = [hist EXCEPT !.fail_write_raised = TRUE,
                                       !.raised_outside = Append(@, JobWriteError)]
               /\ UNCHANGED job
    /\ UNCHANGED <<env, results, progress, last_update_time, now,
                   existing_countries, scan, evidence, candidates, notified,
                   calls, response>>

\* apns_service.send_to_user(import_failed_notification(error))
fail_notify ==
    /\ pc = "fail_notify"
    /\ notified' = Append(notified, "import_failed")
    /\ \E ok \in BOOLEAN :
          IF ok
          THEN /\ pc' = "done"
               /\ UNCHANGED <<handler, err, hist>>
          ELSE /\ FailRaises(TokenLookupError)
               /\ hist' = [hist EXCEPT !.raised_outside = Append(@, TokenLookupError)]
    /\ UNCHANGED <<env, job, results, progress, last_update_time, now,
                   existing_countries, scan, evidence, candidates, calls,
                   response>>

(***************************************************************************)
(* The polling routes (they read the store and change nothing) and the     *)
(* synchronous scan                                                        *)
(***************************************************************************)
\* GET /import/google/scan/status/{job_id}: the response to a poll issued now.
get_scan_status ==
    IF job = NoJob
    THEN [code |-> 404, detail |-> "Import job not found"]
    ELSE [code |-> 200, status |-> job.status, progress |-> job.progress,
          completed_at |-> job.completed_at, error_message |-> job.error_message,
          candidates_count |-> job.candidates_count]

\* GET /import/google/scan/results/{job_id}: the response to a fetch issued now.
get_scan_results ==
    IF job = NoJob
    THEN [code |-> 404, detail |-> "Import job not found"]
    ELSE IF job.status # COMPLETED
    THEN [code |-> 400, detail |-> "Job not completed"]
    ELSE IF results = NoResults
    THEN [code |-> 404, detail |-> "Import results not found or expired"]
    ELSE [code |-> 200, candidates |-> results.candidates,
          scanned_emails |-> results.scanned_emails,
          scanned_events |-> results.scanned_events]

\* POST /import/google/scan: both sources scanned inside the request, each
\* in its own try block, then the candidates built from the evidence.
scan_google_imports ==
    /\ pc = "idle"
    /\ IF ~connected
       THEN response' = [code |-> 400, detail |-> NotConnectedError]
       ELSE \E emails \in DistinctSeqs({m \in EmailUniverse : m.countries # {}}, MaxEmails),
               events \in DistinctSeqs({e \in CalendarUniverse : e.countries # {}}, MaxEvents),
               email_ok \in BOOLEAN, calendar_ok \in BOOLEAN, order \in Orders(Codes) :
               LET ec == IF email_ok THEN aggregate_email_countries(emails) ELSE EmptyEvidence
                   cc == IF calendar_ok THEN aggregate_calendar_countries(events) ELSE EmptyEvidence
                   existing == get_user_visited_places
               IN response' =
                      [code |-> 200,
                       candidates |-> scan_build_candidates(ec, cc, existing, order),
                       existing |-> existing,
                       email_countries |-> ec,
                       calendar_countries |-> cc,
                       scanned_emails |-> IF email_ok THEN Len(emails) ELSE 0,
                       scanned_events |-> IF calendar_ok THEN Len(events) ELSE 0]
    /\ UNCHANGED <<env, job, results, pc, handler, err, progress,
                   last_update_time, now, existing_countries, scan, evidence,
                   candidates, notified, calls, hist>>

(***************************************************************************)
(* Specification                                                           *)
(***************************************************************************)
\* The steps of the background task.
Process ==
    \/ check_connection
    \/ get_existing
    \/ scan_emails_status
    \/ scan_emails_label
    \/ scan_emails_client
    \/ search_travel_emails
    \/ parse_emails_item
    \/ scan_emails_done
    \/ scan_calendar_status
    \/ scan_calendar_label
    \/ scan_calendar_client
    \/ get_calendar_events
    \/ parse_calendar_item
    \/ scan_calendar_done
    \/ processing_status
    \/ processing_build
    \/ store_results
    \/ mark_completed
    \/ notify_completed
    \/ fail_write
    \/ fail_notify

Next ==
    \/ start_async_scan
    \/ Process
    \/ Tick
    \/ disconnect_google
    \/ \E c \in Codes : create_place(c)
    \/ expire_results
    \/ scan_google_imports

Spec == Init /\ [][Next]_vars

\* The event loop runs the background task whenever it can take a step.
FairSpec == Spec /\ WF_vars(Process)

\* One job watched for its progress writes: the clock runs long enough for
\* several callbacks to pass the throttle, and the user's other requests are
\* left out (none of them reads or writes the progress or the throttle clock).
LongTick ==
    /\ pc \in {"emails_loop", "calendar_loop"}
    /\ now < UpdateInterval + MaxLongTime
    /\ now' = now + 1
    /\ UNCHANGED <<connected, places, job, results, pc, handler, err, progress,
                   last_update_time, existing_countries, messages, idx, parsed,
                   email_countries, calendar_countries, candidates, notified,
                   calls, hist, response>>

ThrottleNext ==
    \/ start_async_scan
    \/ Process
    \/ LongTick

ThrottleSpec == Init /\ [][ThrottleNext]_vars

(***************************************************************************)
(* Properties                                                              *)
(***************************************************************************)
Rank(status) ==
    CASE status = PENDING -> 0
      [] status = SCANNING_EMAILS -> 1
      [] status = SCANNING_CALENDAR -> 2
      [] status = PROCESSING -> 3
      [] status = COMPLETED -> 4
      [] status = FAILED -> 4

HasJob == job # NoJob
HasResults == results # NoResults
Ended == pc \in {"done", "crashed"}

\* C1: no write to the job record sets a status of lower rank than the status
\* already persisted, in the order PENDING < SCANNING_EMAILS <
\* SCANNING_CALENDAR < PROCESSING < {COMPLETED, FAILED}, whichever calls raise.
C1_StatusNeverRegresses ==
    [][(HasJob /\ job' # NoJob) => Rank(job'.status) >= Rank(job.status)]_vars

\* C1 witness: a job that failed by an exception after PROCESSING was written.
C1_Witness ==
    /\ HasJob
    /\ job.status = FAILED
    /\ job.progress.current_step = "aggregating_results"
    /\ hist.raised_outside # <<>>

\* C2 (as claimed): once the persisted status is COMPLETED or FAILED, no later
\* step of the orchestrator writes any field of the job record.
C2_TerminalRecordImmutable ==
    [][(HasJob /\ job.status \in Terminal) => job' = job]_vars

\* C3: an exception inside a per-source block (getting the client, the parser
\* with its progress callback, the write and aggregation after it) leaves that
\* source's evidence empty and the job moving on; when nothing outside the
\* blocks raises and the account is linked, the job never becomes FAILED and
\* ends COMPLETED with its result stored.
C3_ScanFailureIsolated ==
    /\ hist.email_raised => email_countries = EmptyEvidence
    /\ hist.calendar_raised => calendar_countries = EmptyEvidence
    /\ (/\ hist.email_raised \/ hist.calendar_raised
        /\ hist.raised_outside = <<>>
        /\ ~hist.not_connected)
       => /\ job.status \notin {PENDING, FAILED}
          /\ pc # "crashed"
          /\ pc \notin {"fail_write", "fail_notify"}
          /\ hist.email_raised =>
                pc \in {"calendar_status", "calendar_label", "calendar_client",
                        "calendar_fetch", "calendar_loop", "calendar_done",
                        "processing_status", "processing_label", "store_results",
                        "mark_completed", "notify_completed", "done"}
          /\ hist.calendar_raised =>
                pc \in {"processing_status", "processing_label", "store_results",
                        "mark_completed", "notify_completed", "done"}
          /\ pc = "done" => job.status = COMPLETED /\ (HasResults \/ hist.expired)

\* C3 witness: the email scan raised, the calendar scan did not, and the job
\* ended COMPLETED.
C3_Witness ==
    /\ pc = "done"
    /\ hist.email_raised
    /\ ~hist.calendar_raised
    /\ job.status = COMPLETED

\* Number of items of a list that carry code c.
RECURSIVE Carrying(_, _)
Carrying(items, c) ==
    IF items = <<>> THEN 0
    ELSE (IF c \in Head(items).countries THEN 1 ELSE 0) + Carrying(Tail(items), c)

\* C4 (as claimed): when the Calendar Parser returned events carrying a code c
\* that has a registry name and is not among the already-known countries, the
\* COMPLETED job's stored candidates contain c with calendar_event_count equal
\* to the number of returned events carrying c.
C4_CalendarEvidenceBecomesCandidate ==
    (HasJob /\ job.status = COMPLETED /\ HasResults /\ hist.parser_returned)
    => \A c \in Codes :
          (/\ Carrying(hist.events_returned, c) > 0
           /\ get_country_name(c) # None
           /\ c \notin existing_countries)
          => \E k \in 1..Len(results.candidates) :
                /\ results.candidates[k].country_code = c
                /\ results.candidates[k].calendar_event_count
                      = Carrying(hist.events_returned, c)

\* The elements of a sequence.
Range(s) == { s[k] : k \in 1..Len(s) }

\* C5 (as claimed): when the account is not linked at the moment the
\* orchestrator checks it, the persisted status is only ever PENDING or FAILED
\* (no SCANNING_EMAILS, SCANNING_CALENDAR or PROCESSING write), no source
\* client and no visited-places lookup is called, and the task ends with the
\* job FAILED, a non-empty error_message and the failure notification invoked.
C5_NotConnectedFailsDirectly ==
    hist.not_connected =>
        /\ job.status \in {PENDING, FAILED}
        /\ calls = {}
        /\ job.status = FAILED => job.error_message \notin {None, ""}
        /\ Ended => /\ job.status = FAILED
                    /\ "import_failed" \in Range(notified)

\* C6 (as claimed): when an exception was raised outside the two per-source
\* blocks, the task ends with the job persisted as FAILED, error_message equal
\* to the message of such an exception, and the failure notification invoked.
C6_UncaughtExceptionFailsJob ==
    (Ended /\ hist.raised_outside # <<>>) =>
        /\ job.status = FAILED
        /\ job.error_message \in Range(hist.raised_outside)
        /\ "import_failed" \in Range(notified)

\* C7 (as claimed): every started job eventually has a persisted terminal
\* status, the background task being scheduled fairly and every call it makes
\* returning or raising.
C7_EveryJobTerminates ==
    HasJob ~> (HasJob /\ job.status \in Terminal)

\* C8: no candidate list, built by the job or returned by the synchronous scan,
\* holds a country code of the already-known set it was built against, whatever
\* the evidence.
C8_NoKnownCountryInCandidates ==
    /\ CandidateCodes(candidates) \cap existing_countries = {}
    /\ HasResults => CandidateCodes(results.candidates) \cap existing_countries = {}
    /\ "candidates" \in DOMAIN response =>
          CandidateCodes(response.candidates) \cap response.existing = {}

\* C8 witness: the job built a non-empty candidate list although there is
\* email evidence for an already-known country.
C8_Witness ==
    /\ pc = "store_results"
    /\ candidates # <<>>
    /\ existing_countries \cap (DOMAIN email_countries) # {}

\* C9 (as claimed): a country recorded as visited while the job's status was
\* SCANNING_EMAILS or SCANNING_CALENDAR is not among the job's stored candidates.
C9_VisitedDuringScanExcluded ==
    HasResults => CandidateCodes(results.candidates) \cap hist.added_during_scan = {}

\* C10: fetch-results answers 404 when there is no job, 400 without candidates
\* when the job's status is not COMPLETED, and for a COMPLETED job the result
\* record was written before the status (it is only ever missing by expiry)
\* and the fetch returns the candidates the job built and its scan totals.
C10_ResultsFetchableIffCompleted ==
    /\ ~HasJob => get_scan_results.code = 404
    /\ (HasJob /\ job.status # COMPLETED) =>
          /\ get_scan_results.code = 400
          /\ "candidates" \notin DOMAIN get_scan_results
    /\ (HasJob /\ job.status = COMPLETED) =>
          /\ HasResults \/ hist.expired
          /\ HasResults =>
                /\ get_scan_results.code = 200
                /\ get_scan_results.candidates = candidates
                /\ Len(get_scan_results.candidates) = job.candidates_count
                /\ get_scan_results.scanned_emails = job.scanned_emails
                /\ get_scan_results.scanned_events = job.scanned_events

\* C10 witness: a COMPLETED job whose fetch returns a non-empty candidate list.
C10_Witness ==
    /\ HasJob
    /\ job.status = COMPLETED
    /\ get_scan_results.code = 200
    /\ get_scan_results.candidates # <<>>

\* Position of a current_step label in the order process() sets them.
StepRank(step) ==
    CASE step = "initializing" -> 0
      [] step = "scanning_emails" -> 1
      [] step = "scanning_calendar" -> 2
      [] step = "aggregating_results" -> 3

\* C11 (as claimed): until the job is terminal, no write to the job record
\* lowers the persisted emails_scanned or events_scanned, or sets current_step
\* to an earlier step.
C11_PersistedProgressAdvances ==
    [][(HasJob /\ job' # NoJob /\ job.status \notin Terminal) =>
          /\ job'.progress.emails_scanned >= job.progress.emails_scanned
          /\ job'.progress.events_scanned >= job.progress.events_scanned
          /\ StepRank(job'.progress.current_step) >= StepRank(job.progress.current_step)]_vars

\* C12 (as claimed): when the email scan raised, the COMPLETED job record and
\* the stored results both report scanned_emails = 0.
C12_RaisedEmailScanReportsZero ==
    (HasJob /\ job.status = COMPLETED /\ hist.email_raised) =>
        /\ job.scanned_emails = 0
        /\ HasResults => results.scanned_emails = 0

C14_NotifierInvokedExactlyOnce ==
    /\ notified # <<>> => job.status \in Terminal
    /\ pc = "done" =>
          /\ Len(notified) = 1
          /\ ("import_completed" \in Range(notified)) <=> (job.status = COMPLETED)
          /\ ("import_failed" \in Range(notified)) <=> (job.status = FAILED)

(***************************************************************************)
(* get_confidence_score on its own                                         *)
(***************************************************************************)
\* Every variable but the response.
state == <<connected, places, job, results, pc, handler, err, progress,
           last_update_time, now, existing_countries, messages, idx, parsed,
           email_countries, calendar_countries, candidates, notified, calls,
           hist>>

\* One call of get_confidence_score; the response records inputs and result.
confidence_call ==
    /\ \E email_count \in 0..MaxCount, calendar_count \in 0..MaxCount,
          has_flight \in BOOLEAN :
          response' = [email_count |-> email_count,
                       calendar_count |-> calendar_count,
                       has_flight |-> has_flight,
                       confidence |-> get_confidence_score(email_count, calendar_count,
                                                           has_flight)]
    /\ UNCHANGED state

ScoreSpec == Init /\ [][confidence_call]_vars

IsScore(r) == "confidence" \in DOMAIN r

\* C15: the score, in hundredths, is between 50 and 99, is exactly 50 for no
\* evidence and no flight flag, does not decrease when emailCount +
\* calendarCount grows under the same flag, and is not lower with the flag
\* than without it for the same counts.
C15_ConfidenceBoundedMonotone ==
    /\ [](IsScore(response) =>
            /\ response.confidence \in 50..99
            /\ (response.email_count + response.calendar_count = 0
                /\ ~response.has_flight) => response.confidence = 50)
    /\ [][(IsScore(response) /\ IsScore(response')) =>
            /\ (/\ response'.has_flight = response.has_flight
                /\ response'.email_count + response'.calendar_count
                      >= response.email_count + response.calendar_count)
               => response'.confidence >= response.confidence
            /\ (/\ response'.has_flight /\ ~response.has_flight
                /\ response'.email_count = response.email_count
                /\ response'.calendar_count = response.calendar_count)
               => response'.confidence >= response.confidence]_vars

\* C15 witness: a call whose base score is capped and whose boost is clamped.
C15_Witness ==
    /\ IsScore(response)
    /\ response.has_flight
    /\ response.email_count + response.calendar_count > 8
    /\ response.confidence = 99

(***************************************************************************)
(* _build_candidates on its own                                            *)
(***************************************************************************)
\* An evidence map as an aggregator leaves it: a code is present when its
\* count is positive, with the samples of its first items, at most MaxSamples;
\* the sample at position flight_at, if any, has "flight" in its title.
EvidenceMap(counts, flight_at, source_type) ==
    [c \in {x \in Codes : counts[x] > 0} |->
        [count |-> counts[c],
         samples |-> [k \in 1..Min(counts[c], MaxSamples) |->
                         [id |-> k, source_type |-> source_type,
                          flight |-> (k = flight_at)]]]]

\* No route has answered yet.
NoResponse == [code |-> 0]

\* One call of _build_candidates; the response records the inputs, the list
\* as the loop built it and the result.
build_call ==
    /\ response = NoResponse
    /\ \E email_counts \in [Codes -> 0..MaxEvidence],
          calendar_counts \in [Codes -> 0..MaxEvidence],
          email_flight \in 0..MaxSamples, calendar_flight \in 0..MaxSamples,
          existing \in SUBSET Codes, order \in Orders(Codes) :
          LET ec == EvidenceMap(email_counts, email_flight, "email")
              cc == EvidenceMap(calendar_counts, calendar_flight, "calendar")
          IN response' = [candidates |-> build_candidates(ec, cc, existing, order),
                          built |-> CandidateLoop(
                                        Iterate(NewCountries(ec, cc, existing), order),
                                        ec, cc),
                          existing |-> existing,
                          email_countries |-> ec,
                          calendar_countries |-> cc]
    /\ UNCHANGED state

BuildSpec == Init /\ [][build_call]_vars

\* What C16 says of one candidate built from two evidence maps.
CandidateAgrees(cand, emails, calendar) ==
    LET code == cand.country_code
        e == IF code \in DOMAIN emails THEN emails[code].count ELSE 0
        c == IF code \in DOMAIN calendar THEN calendar[code].count ELSE 0
        base == IF 50 + 5 * (e + c) < 90 THEN 50 + 5 * (e + c) ELSE 90
        boosted == IF base + 10 < 99 THEN base + 10 ELSE 99
    IN /\ cand.email_count = e
       /\ cand.calendar_event_count = c
       /\ cand.confidence =
             IF \E s \in Range(cand.sample_sources) : s.flight THEN boosted ELSE base

\* C16: every candidate built carries the counts its code has in the two
\* evidence maps (0 for a map without the code) and the confidence the
\* formula gives for them, in hundredths, boosted when one of its samples has
\* "flight" in the title; email count 5 and calendar count 2 for FR alone,
\* nothing visited, give exactly one candidate, FR, with 5, 2 and 85 (95 with
\* the boost).
C16_CandidateCountsAndConfidence ==
    ("candidates" \in DOMAIN response) =>
        /\ \A k \in 1..Len(response.candidates) :
              CandidateAgrees(response.candidates[k], response.email_countries,
                              response.calendar_countries)
        /\ (/\ response.existing = {}
            /\ DOMAIN response.email_countries = {"FR"}
            /\ DOMAIN response.calendar_countries = {"FR"}
            /\ response.email_countries["FR"].count = 5
            /\ response.calendar_countries["FR"].count = 2)
           => /\ Len(response.candidates) = 1
              /\ response.candidates[1].country_code = "FR"
              /\ response.candidates[1].email_count = 5
              /\ response.candidates[1].calendar_event_count = 2
              /\ response.candidates[1].confidence \in {85, 95}
              /\ (response.candidates[1].confidence = 95) <=>
                    (\E s \in Range(response.candidates[1].sample_sources) : s.flight)

\* C16 witness: the example with the flight boost.
C16_Witness ==
    /\ "candidates" \in DOMAIN response
    /\ Len(response.candidates) = 1
    /\ response.candidates[1].country_code = "FR"
    /\ response.candidates[1].email_count = 5
    /\ response.candidates[1].calendar_event_count = 2
    /\ response.candidates[1].confidence = 95

(***************************************************************************)
(* The aggregators on their own                                            *)
(***************************************************************************)
\* Lists of parser results of length n: the k-th has id k and carries any set
\* of codes; every other one has "flight" in its title.
ItemLists(n) ==
    { [k \in 1..n |-> [id |-> k, countries |-> cs[k], flight |-> (k % 2 = 1)]] :
        cs \in [1..n -> SUBSET Codes] }

\* One call of each of the four aggregators on the same list.
aggregate_call ==
    /\ response = NoResponse
    /\ \E n \in 0..MaxItems : \E items \in ItemLists(n) :
          response' = [items |-> items,
                       parser_email |-> aggregate_email_countries(items),
                       parser_calendar |-> aggregate_calendar_countries(items),
                       job_email |-> job_aggregate_email_countries(items),
                       job_calendar |-> job_aggregate_calendar_countries(items)]
    /\ UNCHANGED state

AggSpec == Init /\ [][aggregate_call]_vars

\* The items of a list that carry code c, in input order.
ItemsCarrying(items, c) == SelectSeq(items, LAMBDA it : c \in it.countries)

\* What C17 says of an evidence map aggregated from a list.
FirstFiveSamples(countries, items, source_type) ==
    \A c \in DOMAIN countries :
        LET carrying == ItemsCarrying(items, c)
            kept == IF Len(carrying) < 5 THEN Len(carrying) ELSE 5
        IN /\ Len(countries[c].samples) <= 5
           /\ countries[c].samples =
                 [k \in 1..kept |-> [id |-> carrying[k].id,
                                     source_type |-> source_type,
                                     flight |-> carrying[k].flight]]

\* C17: in the map an aggregator returns, the samples of a code are at most 5
\* and are the samples of the first min(5, n) items carrying the code, in
\* input order (the email aggregator of the job and of the parser, and the
\* calendar aggregator of the parser).
C17_SamplesAreFirstFive ==
    ("items" \in DOMAIN response) =>
        /\ ~response.job_email.raised
        /\ FirstFiveSamples(response.job_email.value, response.items, "email")
        /\ FirstFiveSamples(response.parser_email, response.items, "email")
        /\ FirstFiveSamples(response.parser_calendar, response.items, "calendar")

\* C17 witness: more than 5 items carry FR and 5 samples are stored for it.
C17_Witness ==
    /\ "items" \in DOMAIN response
    /\ Len(ItemsCarrying(response.items, "FR")) > 5
    /\ Len(response.job_email.value["FR"].samples) = 5
    /\ Len(response.parser_calendar["FR"].samples) = 5

\* The per-code counts of an evidence map, 0 for a code it lacks.
CountOf(countries, c) == IF c \in DOMAIN countries THEN countries[c].count ELSE 0

\* What C18 says of the map an aggregator returns for a list: the count of a
\* code is the number of items carrying it and a code no item carries is
\* absent.
CountsItems(countries, items) ==
    /\ \A c \in DOMAIN countries : countries[c].count = Len(ItemsCarrying(items, c))
    /\ \A c \in Codes : Len(ItemsCarrying(items, c)) = 0 => c \notin DOMAIN countries

\* C18 (as claimed): each of the four aggregators returns, for every list, a
\* map whose counts are the numbers of items carrying each code and which
\* lacks the codes no item carries; and for every split of the list into A
\* and B the counts for A ++ B are the sums of the counts for A and for B.
C18_CountsAreItemCounts ==
    ("items" \in DOMAIN response) =>
        LET items == response.items IN
        /\ CountsItems(response.parser_email, items)
        /\ CountsItems(response.parser_calendar, items)
        /\ ~response.job_email.raised
        /\ CountsItems(response.job_email.value, items)
        /\ ~response.job_calendar.raised
        /\ CountsItems(response.job_calendar.value, items)
        /\ \A j \in 0..Len(items) : \A c \in Codes :
              LET A == SubSeq(items, 1, j)
                  B == SubSeq(items, j + 1, Len(items))
              IN /\ CountOf(response.parser_email, c)
                       = CountOf(aggregate_email_countries(A), c)
                         + CountOf(aggregate_email_countries(B), c)
                 /\ CountOf(response.parser_calendar, c)
                       = CountOf(aggregate_calendar_countries(A), c)
                         + CountOf(aggregate_calendar_countries(B), c)
                 /\ CountOf(response.job_email.value, c)
                       = CountOf(job_aggregate_email_countries(A).value, c)
                         + CountOf(job_aggregate_email_countries(B).value, c)
                 /\ CountOf(response.job_calendar.value, c)
                       = CountOf(job_aggregate_calendar_countries(A).value, c)
                         + CountOf(job_aggregate_calendar_countries(B).value, c)

(***************************************************************************)
(* The entity extractor on its own                                         *)
(***************************************************************************)
\* Words a text of this model is made of, as written in the text.
Vocabulary == {"Flight", "from", "to", "JFK", "CDG", "XYZ", "can", "Paris", "France"}

\* str.upper() and str.lower() on the words.
Upper(w) ==
    CASE w = "Flight" -> "FLIGHT" [] w = "from" -> "FROM" [] w = "to" -> "TO"
      [] w = "JFK" -> "JFK" [] w = "CDG" -> "CDG" [] w = "can" -> "CAN"
      [] w = "XYZ" -> "XYZ"
      [] w = "Paris" -> "PARIS" [] w = "France" -> "FRANCE"

Lower(w) ==
    CASE w = "Flight" -> "flight" [] w = "from" -> "from" [] w = "to" -> "to"
      [] w = "JFK" -> "jfk" [] w = "CDG" -> "cdg" [] w = "can" -> "can"
      [] w = "XYZ" -> "xyz"
      [] w = "Paris" -> "paris" [] w = "France" -> "france"

\* The entries of the tables that the vocabulary can hit.
AIRPORT_CODES == [c \in {"JFK", "CDG", "CAN"} |->
                    CASE c = "JFK" -> "US" [] c = "CDG" -> "FR" [] c = "CAN" -> "CN"]
CITY_TO_COUNTRY == [c \in {"paris"} |-> "FR"]
\* Lower-cased names of the country registry.
COUNTRY_NAMES == [c \in {"france"} |-> "FR"]

\* A text: absent (None) or a string, given as its words.
Text(present, words) == [present |-> present, words |-> IF present THEN words ELSE <<>>]

\* The detector upper-cases the whole text before it looks for 3-letter words.
extract_airport_codes(text) ==
    { AIRPORT_CODES[Upper(text.words[k])] :
        k \in { i \in 1..Len(text.words) : Upper(text.words[i]) \in DOMAIN AIRPORT_CODES } }

extract_cities(text) ==
    { CITY_TO_COUNTRY[Lower(text.words[k])] :
        k \in { i \in 1..Len(text.words) : Lower(text.words[i]) \in DOMAIN CITY_TO_COUNTRY } }

extract_country_names(text) ==
    { COUNTRY_NAMES[Lower(text.words[k])] :
        k \in { i \in 1..Len(text.words) : Lower(text.words[i]) \in DOMAIN COUNTRY_NAMES } }

extract_countries_from_text(text) ==
    IF ~text.present \/ text.words = <<>>
    THEN {}
    ELSE extract_airport_codes(text) \cup extract_cities(text)
         \cup extract_country_names(text)

\* extract_countries_comprehensive(text, use_nlp=False)
extract_countries_comprehensive(text) == extract_countries_from_text(text)

\* One call of the extractor; the response records the text, what each
\* detector finds in its words, and the result.
extract_call ==
    /\ response = NoResponse
    /\ \E present \in BOOLEAN, n \in 0..MaxWords : \E words \in [1..n -> Vocabulary] :
          LET text == Text(present, words) IN
          response' = [text |-> text,
                       airports |-> extract_airport_codes(text),
                       cities |-> extract_cities(text),
                       names |-> extract_country_names(text),
                       countries |-> extract_countries_comprehensive(text)]
    /\ UNCHANGED state

ExtractSpec == Init /\ [][extract_call]_vars

\* The text holds an isolated upper-case token of the IATA table, or, in any
\* case, a city of the city table or a country name.
HoldsKnownPlace(text) ==
    \E k \in 1..Len(text.words) :
        \/ text.words[k] \in DOMAIN AIRPORT_CODES
        \/ Lower(text.words[k]) \in DOMAIN CITY_TO_COUNTRY
        \/ Lower(text.words[k]) \in DOMAIN COUNTRY_NAMES

\* C19 (as claimed): without NLP the extractor returns the union of what the
\* three detectors find, the empty set for an absent or empty string and for
\* a text holding no known airport code, city or country name, and {US, FR}
\* for "Flight from JFK to CDG".
C19_ExtractIsUnionOfDetectors ==
    ("text" \in DOMAIN response) =>
        /\ response.countries = response.airports \cup response.cities \cup response.names
        /\ (~response.text.present \/ response.text.words = <<>>) => response.countries = {}
        /\ ~HoldsKnownPlace(response.text) => response.countries = {}
        /\ response.text.words = <<"Flight", "from", "JFK", "to", "CDG">>
              => response.countries = {"US", "FR"}

(***************************************************************************)
(* POST /import/google/confirm                                             *)
(***************************************************************************)
\* Codes a confirm request can name: registry codes, one of them also in
\* lower case, and a code the registry lacks.
RequestCodes == {"FR", "JP", "fr", "XX"}

\* A visited-place record per key: absent, active, or soft-deleted.
PlaceStates == {"absent", "active", "deleted"}

ConfirmInit ==
    /\ connected \in BOOLEAN
    /\ places \in [RequestCodes -> PlaceStates]
    /\ job = NoJob
    /\ results = NoResults
    /\ pc = "idle"
    /\ handler = "try"
    /\ err = None
    /\ progress = ImportJobProgress
    /\ last_update_time = 0
    /\ now = UpdateInterval
    /\ existing_countries = {}
    /\ messages = <<>>
    /\ idx = 0
    /\ parsed = <<>>
    /\ email_countries = EmptyEvidence
    /\ calendar_countries = EmptyEvidence
    /\ candidates = <<>>
    /\ notified = <<>>
    /\ calls = {}
    /\ hist = [fail_write_raised |-> FALSE, raised_outside |-> <<>>,
               email_raised |-> FALSE, calendar_raised |-> FALSE,
               parser_returned |-> FALSE, events_returned |-> <<>>,
               added_during_scan |-> {}, not_connected |-> FALSE,
               expired |-> FALSE, callback_writes |-> <<>>]
    /\ response = NoResponse

\* Faulty variant of AlreadyVisited: the existing record is not looked up.
AlreadyVisited_unchecked(pl, country_code) == FALSE

\* existing and not existing.get("is_deleted")
AlreadyVisited(pl, country_code) == pl[country_code] = "active"

\* The loop of confirm_import from position k on: pl is the table of places,
\* imported the codes created so far; the store call for position fail_at
\* raises (0: none does).
RECURSIVE ConfirmLoop(_, _, _, _, _)
ConfirmLoop(country_codes, k, pl, imported, fail_at) ==
    IF k > Len(country_codes)
    THEN [raised |-> FALSE, places |-> pl, imported |-> imported]
    ELSE LET country_code == country_codes[k] IN
         IF get_country_name(country_code) = None
         THEN ConfirmLoop(country_codes, k + 1, pl, imported, fail_at)
         ELSE IF k = fail_at
         THEN [raised |-> TRUE, places |-> pl, imported |-> imported]
         ELSE IF AlreadyVisited(pl, country_code)
         THEN ConfirmLoop(country_codes, k + 1, pl, imported, fail_at)
         ELSE ConfirmLoop(country_codes, k + 1,
                          [pl EXCEPT ![country_code] = "active"],
                          Append(imported, country_code), fail_at)

\* confirm_import: 400 for an empty selection, else the loop; a raising store
\* call keeps the records created before it.  The user's countries_visited
\* counter, updated at the end, is not part of the state.
confirm_import ==
    /\ \E n \in 0..MaxSelection : \E country_codes \in [1..n -> RequestCodes] :
       \E fail_at \in 0..n :
          IF country_codes = <<>>
          THEN /\ response' = [code |-> 400, request |-> country_codes,
                               before |-> places]
               /\ UNCHANGED places
          ELSE LET r == ConfirmLoop(country_codes, 1, places, <<>>, fail_at) IN
               /\ places' = r.places
               /\ response' = IF r.raised
                              THEN [code |-> 500, request |-> country_codes,
                                    before |-> places]
                              ELSE [code |-> 200, request |-> country_codes,
                                    before |-> places,
                                    imported |-> Len(r.imported),
                                    countries |-> r.imported]
    /\ UNCHANGED <<connected, job, results, pc, handler, err, progress,
                   last_update_time, now, existing_countries, messages, idx,
                   parsed, email_countries, calendar_countries, candidates,
                   notified, calls, hist>>

ConfirmSpec == ConfirmInit /\ [][confirm_import]_vars

\* The requested codes that have a registry name and had no active record.
ToCreate(r) ==
    { c \in Range(r.request) : get_country_name(c) # None /\ r.before[c] # "active" }

\* C20: a confirm request that returns has created a record for exactly the
\* requested codes with a registry name and no non-deleted record, has left
\* every other record as it was, and reports as imported the number and the
\* codes of the records created; an empty selection is answered 400 with
\* nothing created; and the same request repeated right after creates nothing
\* and reports imported = 0.
C20_ConfirmCreatesExactlyMissing ==
    /\ []((("request" \in DOMAIN response) /\ response.code = 200) =>
            /\ \A c \in RequestCodes :
                  places[c] = IF c \in ToCreate(response) THEN "active"
                              ELSE response.before[c]
            /\ response.imported = Cardinality(ToCreate(response))
            /\ Range(response.countries) = ToCreate(response)
            /\ Len(response.countries) = response.imported)
    /\ []((("request" \in DOMAIN response) /\ response.request = <<>>) =>
            /\ response.code = 400
            /\ places = response.before)
    /\ [][(/\ "request" \in DOMAIN response
           /\ response.code = 200
           /\ "request" \in DOMAIN response'
           /\ response'.code = 200
           /\ response'.request = response.request)
          => /\ response'.imported = 0
             /\ places' = places]_vars

\* C20 witness: of two requested codes one had an active record and was
\* skipped, the other had a soft-deleted record and was created.
C20_Witness ==
    /\ "request" \in DOMAIN response
    /\ response.code = 200
    /\ response.request = <<"FR", "JP">>
    /\ response.before["FR"] = "active"
    /\ response.before["JP"] = "deleted"
    /\ response.imported = 1
    /\ places["JP"] = "active"

\* C21: any two writes made by progress callbacks are at least UpdateInterval
\* apart, and each comes at least UpdateInterval after the previous write of
\* the record (which is the previous progress write), while the writes at the phase boundaries are made whatever the
\* time: after each label write and after each scan's final write the
\* persisted progress is the processor's progress, and the status written at
\* each transition is the persisted one.
C21_ProgressWritesThrottled ==
    /\ [](\A i, j \in 1..Len(hist.callback_writes) :
             i < j => hist.callback_writes[j] - hist.callback_writes[i] >= UpdateInterval)
    /\ [][(pc \in {"emails_loop", "calendar_loop"} /\ job' # job)
             => now - job.updated_at >= UpdateInterval]_vars
    /\ [](pc \in {"emails_client", "calendar_client", "store_results"}
             => job.progress = progress)
    /\ []((pc = "calendar_status" /\ ~hist.email_raised) => job.progress = progress)
    /\ []((pc = "processing_status" /\ ~hist.calendar_raised) => job.progress = progress)
    /\ [](pc = "emails_label" => job.status = SCANNING_EMAILS)
    /\ [](pc = "calendar_label" => job.status = SCANNING_CALENDAR)
    /\ [](pc = "processing_label" => job.status = PROCESSING)

\* C21 witness: two progress callbacks have written, and the next callback of
\* the calendar scan is throttled.
C21_Witness ==
    /\ Len(hist.callback_writes) = 2
    /\ pc = "calendar_loop"
    /\ Throttled

(***************************************************************************)
(* The two parsers of one job run one after the other                      *)
(***************************************************************************)
EmailParserRunning == pc \in {"emails_search", "emails_loop"}
CalendarParserRunning == pc \in {"calendar_fetch", "calendar_loop"}
EmailCounters(p) == <<p.emails_scanned, p.emails_total>>
EventCounters(p) == <<p.events_scanned, p.events_total>>

\* C22: the email parser runs only while the record says SCANNING_EMAILS and
\* the calendar parser only while it says SCANNING_CALENDAR, so the two never
\* run together; the email counters, in memory and persisted, do not change
\* in a step taken from status SCANNING_CALENDAR or later; the event counters
\* are 0 while the status is PENDING or SCANNING_EMAILS; and a step of a
\* parser's callback changes the counters of its own source only.
C22_ParsersRunSequentially ==
    /\ [](EmailParserRunning => (HasJob /\ job.status = SCANNING_EMAILS))
    /\ [](CalendarParserRunning => (HasJob /\ job.status = SCANNING_CALENDAR))
    /\ []((HasJob /\ job.status \in {PENDING, SCANNING_EMAILS})
            => (EventCounters(job.progress) = <<0, 0>> /\ EventCounters(progress) = <<0, 0>>))
    /\ [][(HasJob /\ Rank(job.status) >= Rank(SCANNING_CALENDAR))
            => (/\ EmailCounters(job'.progress) = EmailCounters(job.progress)
                /\ EmailCounters(progress') = EmailCounters(progress))]_vars
    /\ [][EmailParserRunning => EventCounters(progress') = EventCounters(progress)]_vars

\* C22 witness: the calendar parser is past its first event and has persisted
\* a count, after an email scan that counted two messages.
C22_Witness ==
    /\ pc = "calendar_loop"
    /\ idx >= 1
    /\ job.status = SCANNING_CALENDAR
    /\ job.progress.emails_scanned = 2
    /\ job.progress.events_scanned >= 1

(***************************************************************************)
(* The order of the candidate list                                         *)
(***************************************************************************)
\* The position of the candidate for `code` in a list of candidates.
PositionOf(cs, code) == CHOOSE k \in 1..Len(cs) : cs[k].country_code = code

\* C23: the list returned is the list the loop built, rearranged: the same
\* candidates, each once; totals of email_count + calendar_event_count do not
\* increase along it; and two candidates with equal totals stand in the order
\* in which the loop built them.
C23_CandidatesSortedStable ==
    ("built" \in DOMAIN response) =>
        LET cs == response.candidates
            built == response.built
        IN /\ Len(cs) = Len(built)
           /\ Range(cs) = Range(built)
           /\ \A i, j \in 1..Len(cs) :
                 i < j =>
                    /\ cs[i] # cs[j]
                    /\ Total(cs[i]) >= Total(cs[j])
                    /\ Total(cs[i]) = Total(cs[j])
                          => PositionOf(built, cs[i].country_code)
                                < PositionOf(built, cs[j].country_code)

\* C23 witness: two candidates with equal totals, built JP first, returned JP
\* first.
C23_Witness ==
    /\ "built" \in DOMAIN response
    /\ Len(response.candidates) = 2
    /\ Total(response.candidates[1]) = Total(response.candidates[2])
    /\ response.built[1].country_code = "JP"
    /\ response.candidates[1].country_code = "JP"

(***************************************************************************)
(* The samples of a candidate                                              *)
(***************************************************************************)
\* The samples an evidence map holds for a code, none for a code it lacks.
SamplesOf(countries, code) ==
    IF code \in DOMAIN countries THEN countries[code].samples ELSE <<>>

\* What C24 says of one candidate built from two evidence maps.
SamplesMerged(cand, emails, calendar) ==
    LET es == SamplesOf(emails, cand.country_code)
        cs == SamplesOf(calendar, cand.country_code)
        n_e == IF Len(es) < 3 THEN Len(es) ELSE 3
        n_c == IF Len(cs) < 2 THEN Len(cs) ELSE 2
        merged == cand.sample_sources
        base == IF 50 + 5 * Total(cand) < 90 THEN 50 + 5 * Total(cand) ELSE 90
    IN /\ Len(merged) = n_e + n_c
       /\ \A k \in 1..n_e : merged[k] = es[k]
       /\ \A k \in 1..n_c : merged[n_e + k] = cs[k]
       /\ Len(merged) <= 5
       /\ Cardinality({k \in 1..Len(merged) : merged[k].source_type = "email"}) <= 3
       /\ Cardinality({k \in 1..Len(merged) : merged[k].source_type = "calendar"}) <= 2
       /\ (cand.confidence > base) <=> (\E k \in 1..Len(merged) : merged[k].flight)

\* C24: the samples of every candidate built are the first min(3, n_e) email
\* samples of its code followed by the first min(2, n_c) calendar samples: at
\* most 5, at most 3 from email and 2 from calendar, a short source leaving
\* its slots empty; and the confidence carries the flight boost exactly when
\* one of these merged samples has "flight" in its title.
C24_SamplesMergedThreeAndTwo ==
    ("built" \in DOMAIN response) =>
        \A k \in 1..Len(response.candidates) :
            SamplesMerged(response.candidates[k], response.email_countries,
                          response.calendar_countries)

\* C24 witness: a candidate of a code with five email samples, the fourth a
\* flight, and one calendar sample: four merged samples and no boost.
C24_Witness ==
    /\ "built" \in DOMAIN response
    /\ Len(response.candidates) >= 1
    /\ LET cand == response.candidates[1]
           es == SamplesOf(response.email_countries, cand.country_code)
           cs == SamplesOf(response.calendar_countries, cand.country_code)
       IN /\ Len(es) = 5
          /\ es[4].flight
          /\ Len(cs) = 1
          /\ ~cs[1].flight
          /\ Len(cand.sample_sources) = 4
          /\ cand.confidence = 80

(***************************************************************************)
(* The airport-code detector                                               *)
(***************************************************************************)
\* The words of a text that are written in upper case and are keys of the
\* table.
UppercaseAirportTokens(text) ==
    { text.words[k] : k \in { i \in 1..Len(text.words) :
                                 /\ text.words[i] = Upper(text.words[i])
                                 /\ text.words[i] \in DOMAIN AIRPORT_CODES } }

\* C25 (as claimed): the detector returns the countries of the upper-case
\* 3-letter words of the text that are keys of the table, and nothing for a
\* word in lower or mixed case or for a 3-letter word the table lacks.
C25_AirportCodesUppercaseOnly ==
    ("airports" \in DOMAIN response /\ response.text.present) =>
        response.airports = { AIRPORT_CODES[w] : w \in UppercaseAirportTokens(response.text) }

(***************************************************************************)
(* search_travel_emails on its own                                         *)
(***************************************************************************)
\* Ids of the messages of a mailbox.
MessageIds == {"m1", "m2"}

\* What the source does with one query: it raises, or it returns a page of
\* message ids (a source is free to repeat ids and to ignore maxResults).
Pages == UNION { [1..n -> MessageIds] : n \in 0..MaxPage }
QueryOutcomes ==
    { [raised |-> TRUE, messages |-> <<>>] }
        \cup { [raised |-> FALSE, messages |-> page] : page \in Pages }

\* Faulty variant of AppendNew: seen_ids is not consulted.
AppendNew_unseen(all_messages, page) == all_messages \o page

\* for msg in messages: if msg["id"] not in seen_ids: add and append
RECURSIVE AppendNew(_, _)
AppendNew(all_messages, page) ==
    IF page = <<>> THEN all_messages
    ELSE AppendNew(IF Head(page) \in Range(all_messages)
                   THEN all_messages
                   ELSE Append(all_messages, Head(page)),
                   Tail(page))

\* The loop over TRAVEL_QUERIES from query k on; `issued` lists the queries
\* sent to the source with their maxResults argument.
RECURSIVE QueryLoop(_, _, _, _, _)
QueryLoop(outcomes, k, all_messages, issued, max_results) ==
    IF k > Len(outcomes)
    THEN [all_messages |-> all_messages, issued |-> issued]
    ELSE LET sent == Append(issued, [query |-> k,
                                      maxResults |-> Min(100, max_results - Len(all_messages))])
         IN IF outcomes[k].raised
            THEN QueryLoop(outcomes, k + 1, all_messages, sent, max_results)
            ELSE LET collected == AppendNew(all_messages, outcomes[k].messages)
                 IN IF Len(collected) >= max_results
                    THEN [all_messages |-> collected, issued |-> sent]
                    ELSE QueryLoop(outcomes, k + 1, collected, sent, max_results)

\* search_travel_emails(gmail_service, max_results)
search_travel_emails_list(outcomes, max_results) ==
    LET loop == QueryLoop(outcomes, 1, <<>>, <<>>, max_results)
    IN [messages |-> Take(loop.all_messages, max_results), issued |-> loop.issued]

\* One call of search_travel_emails; the response records the source's
\* behaviour, the cap, the list returned and the queries issued.
search_call ==
    /\ response = NoResponse
    /\ \E outcomes \in [1..MaxQueries -> QueryOutcomes], max_results \in 0..MaxResults :
          LET found == search_travel_emails_list(outcomes, max_results)
          IN response' = [outcomes |-> outcomes,
                          max_results |-> max_results,
                          messages |-> found.messages,
                          issued |-> found.issued]
    /\ UNCHANGED state

SearchSpec == Init /\ [][search_call]_vars

\* The ids the source returned to the first k queries issued.
ReturnedUpTo(outcomes, k) ==
    UNION { Range(outcomes[j].messages) : j \in 1..k }

\* C26: the list a mail search returns has pairwise distinct ids and at most
\* max_results entries; after a query that raised the next query is issued;
\* and whatever the source returned to the queries issued is in the list,
\* unless the list is full.
C26_SearchDistinctCappedTolerant ==
    ("issued" \in DOMAIN response) =>
        LET ms == response.messages
            n == Len(response.issued)
        IN /\ \A i, j \in 1..Len(ms) : i # j => ms[i] # ms[j]
           /\ Len(ms) <= response.max_results
           /\ \A k \in 1..n : response.issued[k].query = k
           /\ \A k \in 1..n :
                 (response.outcomes[k].raised /\ k < Len(response.outcomes)) => n > k
           /\ \/ Len(ms) = response.max_results
              \/ Range(ms) = ReturnedUpTo(response.outcomes, n)

\* C26 witness: the first query returned a message, the second raised, the
\* third returned that message and another; both messages are returned, once.
C26_Witness ==
    /\ "issued" \in DOMAIN response
    /\ Len(response.issued) = 3
    /\ response.outcomes[1] = [raised |-> FALSE, messages |-> <<"m1">>]
    /\ response.outcomes[2].raised
    /\ response.outcomes[3] = [raised |-> FALSE, messages |-> <<"m1", "m2">>]
    /\ response.messages = <<"m1", "m2">>

(***************************************************************************)
(* The loop of parse_emails_with_progress on its own                       *)
(***************************************************************************)
\* What happens to one message of the list: whether get_email_details
\* returns the message, whether is_travel_email accepts it, and the
\* countries the extractor finds in it.
MessageFates == [details : BOOLEAN, travel : BOOLEAN, countries : SUBSET Codes]

\* Faulty variant of ProgressArgs: the callback is given the index.
ProgressArgs_index(i, total) == [scanned |-> i, total |-> total]

\* progress_callback(i + 1, total)
ProgressArgs(i, total) == [scanned |-> i + 1, total |-> total]

\* for i, msg in enumerate(messages), from index i on (0-based as in the
\* code); the callback raises at its call number raises_at, if that is not 0,
\* and nothing in the parser catches it.
RECURSIVE EmailLoop(_, _, _, _, _, _)
EmailLoop(fates, i, total, callback_calls, emitted, raises_at) ==
    IF i >= Len(fates)
    THEN [raised |-> FALSE, callback_calls |-> callback_calls, results |-> emitted]
    ELSE LET called == Append(callback_calls, ProgressArgs(i, total))
             fate == fates[i + 1]
         IN IF Len(called) = raises_at
            THEN [raised |-> TRUE, callback_calls |-> called, results |-> <<>>]
            ELSE IF ~fate.details \/ ~fate.travel \/ fate.countries = {}
                 THEN EmailLoop(fates, i + 1, total, called, emitted, raises_at)
                 ELSE EmailLoop(fates, i + 1, total, called,
                                Append(emitted, [id |-> i + 1, countries |-> fate.countries]),
                                raises_at)

\* parse_emails_with_progress after the search returned len(fates) messages.
parse_emails_with_progress(fates, raises_at) ==
    EmailLoop(fates, 0, Len(fates), <<>>, <<>>, raises_at)

\* One call of the parser; the response records the messages' fates and
\* what the parser did.
parse_call ==
    /\ response = NoResponse
    /\ \E n \in 0..MaxMessages : \E fates \in [1..n -> MessageFates], raises_at \in 0..n :
          LET out == parse_emails_with_progress(fates, raises_at)
          IN response' = [fates |-> fates,
                          raised |-> out.raised,
                          callback_calls |-> out.callback_calls,
                          results |-> out.results]
    /\ UNCHANGED state

ParseSpec == Init /\ [][parse_call]_vars

\* The messages of the list, by position, that have details, pass the
\* heuristic and hold a country.
KeptPositions(fates) ==
    { k \in 1..Len(fates) :
        fates[k].details /\ fates[k].travel /\ fates[k].countries # {} }

\* C27: the k-th call of the progress callback is (k, total) with total the
\* length of the message list; a parser that returns has called it once per
\* message, dropped messages included; and its results are the messages
\* whose details were fetched, that passed the heuristic and that hold at
\* least one country, in list order.
C27_CallbackOncePerMessage ==
    ("callback_calls" \in DOMAIN response) =>
        LET invoked == response.callback_calls
            total == Len(response.fates)
        IN /\ \A k \in 1..Len(invoked) : invoked[k] = [scanned |-> k, total |-> total]
           /\ Len(invoked) <= total
           /\ ~response.raised =>
                 /\ Len(invoked) = total
                 /\ Len(response.results) = Cardinality(KeptPositions(response.fates))
                 /\ \A k \in 1..Len(response.results) :
                       /\ response.results[k].id \in KeptPositions(response.fates)
                       /\ response.results[k].countries # {}
                       /\ \A j \in 1..Len(response.results) :
                             k < j => response.results[k].id < response.results[j].id

\* C27 witness: two messages, the first dropped because its details could
\* not be fetched, the second emitted; the callback was called for both.
C27_Witness ==
    /\ "callback_calls" \in DOMAIN response
    /\ Len(response.fates) = 2
    /\ ~response.fates[1].details
    /\ ~response.raised
    /\ Len(response.callback_calls) = 2
    /\ Len(response.results) = 1
    /\ response.results[1].id = 2

(***************************************************************************)
(* Two jobs of one user at a time                                          *)
(***************************************************************************)
\* In this specification the store holds a job record and a result record
\* per sort key, and every variable of a processor (pc, progress,
\* last_update_time, the lists and maps it holds) is a function of the job
\* id: each ImportJobProcessor instance has its own.
JobIds == {"j1", "j2"}

\* Faulty variant of JobKey: the records are keyed by the user alone.
JobKey_user(job_id) == "j1"

\* The sort key of the records of a job: IMPORT_JOB#{job_id} and
\* IMPORT_RESULTS#{job_id}.
JobKey(job_id) == job_id

\* What the two sources answer to a job of this specification: one message
\* or two, no event or one.
DualMail == { s \in DistinctSeqs(EmailUniverse, 2) :
                 \/ Len(s) = 1 /\ s[1].countries = {"FR"}
                 \/ Len(s) = 2 /\ s[1].countries = {} /\ s[2].countries = {"FR", "JP"} }
DualEvents == { s \in DistinctSeqs(CalendarUniverse, 1) :
                   \A k \in 1..Len(s) : s[k].countries = {"JP"} }

NoInputs == [emails |-> <<>>, events |-> <<>>, order |-> <<>>, existing |-> {}]

DualInit ==
    /\ connected = TRUE
    /\ \E fr \in {"absent", "active"} :
          places = [c \in Codes |-> IF c = "FR" THEN fr ELSE "absent"]
    /\ job = [k \in JobIds |-> NoJob]
    /\ results = [k \in JobIds |-> NoResults]
    /\ pc = [j \in JobIds |-> "idle"]
    /\ handler = "try"
    /\ err = None
    /\ progress = [j \in JobIds |-> ImportJobProgress]
    /\ last_update_time = [j \in JobIds |-> 0]
    /\ now = UpdateInterval
    /\ existing_countries = [j \in JobIds |-> {}]
    /\ messages = [j \in JobIds |-> <<>>]
    /\ idx = [j \in JobIds |-> 0]
    /\ parsed = [j \in JobIds |-> <<>>]
    /\ email_countries = [j \in JobIds |-> EmptyEvidence]
    /\ calendar_countries = [j \in JobIds |-> EmptyEvidence]
    /\ candidates = [j \in JobIds |-> <<>>]
    /\ notified = <<>>
    /\ calls = {}
    /\ hist = [inputs |-> [j \in JobIds |-> NoInputs], overlapped |-> FALSE]
    /\ response = NoResponse

dual_shared == <<connected, places, handler, err, notified, calls, response>>

\* db_service.update_import_job(user_id, job_id, updates) on the table.
DualUpdate(j, updates) ==
    LET record == job[JobKey(j)]
    IN [job EXCEPT ![JobKey(j)] =
           [f \in DOMAIN record |->
               IF f \in DOMAIN updates THEN updates[f]
               ELSE IF f = "updated_at" THEN now
               ELSE record[f]]]

\* start_import_job: the record of a new job is put and its processor starts.
DualStart(j) ==
    /\ pc[j] = "idle"
    /\ connected
    /\ job' = [job EXCEPT ![JobKey(j)] = create_import_job]
    /\ pc' = [pc EXCEPT ![j] = "lookup"]
    /\ hist' = [hist EXCEPT !.overlapped =
                   @ \/ \E k \in JobIds \ {j} : pc[k] \notin {"idle", "done"}]
    /\ UNCHANGED <<dual_shared, results, progress, last_update_time, now,
                   existing_countries, messages, idx, parsed, email_countries,
                   calendar_countries, candidates>>

\* process(): the connection check passes and the visited set is read.
DualGetExisting(j) ==
    /\ pc[j] = "lookup"
    /\ existing_countries' = [existing_countries EXCEPT ![j] = get_user_visited_places]
    /\ hist' = [hist EXCEPT !.inputs[j].existing = get_user_visited_places]
    /\ pc' = [pc EXCEPT ![j] = "emails_status"]
    /\ UNCHANGED <<dual_shared, job, results, progress, last_update_time, now,
                   messages, idx, parsed, email_countries, calendar_countries,
                   candidates>>

\* _update_status(status)
DualStatus(j, at, status, next) ==
    /\ pc[j] = at
    /\ job' = DualUpdate(j, [status |-> status, progress |-> progress[j], updated_at |-> now])
    /\ pc' = [pc EXCEPT ![j] = next]
    /\ UNCHANGED <<dual_shared, results, progress, last_update_time, now,
                   existing_countries, messages, idx, parsed, email_countries,
                   calendar_countries, candidates, hist>>

\* self.progress.current_step = label; self._update_progress(force=True)
DualLabel(j, at, label, next) ==
    /\ pc[j] = at
    /\ progress' = [progress EXCEPT ![j].current_step = label]
    /\ last_update_time' = [last_update_time EXCEPT ![j] = now]
    /\ job' = DualUpdate(j, [progress |-> progress'[j], updated_at |-> now])
    /\ pc' = [pc EXCEPT ![j] = next]
    /\ UNCHANGED <<dual_shared, results, now, existing_countries, messages, idx,
                   parsed, email_countries, calendar_countries, candidates, hist>>

\* The source answers the parser of job j.
DualSearch(j, at, answers, field, loop, done) ==
    /\ pc[j] = at
    /\ \E items \in answers :
          /\ messages' = [messages EXCEPT ![j] = items]
          /\ hist' = [hist EXCEPT !.inputs[j][field] = items]
          /\ pc' = [pc EXCEPT ![j] = IF items = <<>> THEN done ELSE loop]
    /\ idx' = [idx EXCEPT ![j] = 0]
    /\ parsed' = [parsed EXCEPT ![j] = <<>>]
    /\ UNCHANGED <<dual_shared, job, results, progress, last_update_time, now,
                   existing_countries, email_countries, calendar_countries,
                   candidates>>

\* One iteration of a parser loop of job j: the callback with its throttled
\* write, then the item.
DualItem(j, at, scanned, total, done) ==
    /\ pc[j] = at
    /\ idx[j] < Len(messages[j])
    /\ LET item == messages[j][idx[j] + 1]
           p == [progress[j] EXCEPT ![scanned] = idx[j] + 1, ![total] = Len(messages[j])]
       IN /\ progress' = [progress EXCEPT ![j] = p]
          /\ IF (now - last_update_time[j]) < UpdateInterval
             THEN UNCHANGED <<job, last_update_time>>
             ELSE /\ last_update_time' = [last_update_time EXCEPT ![j] = now]
                  /\ job' = DualUpdate(j, [progress |-> p, updated_at |-> now])
          /\ parsed' = [parsed EXCEPT ![j] =
                           IF item.countries # {} THEN Append(@, item) ELSE @]
          /\ idx' = [idx EXCEPT ![j] = @ + 1]
          /\ pc' = [pc EXCEPT ![j] = IF idx[j] + 1 = Len(messages[j]) THEN done ELSE at]
    /\ UNCHANGED <<dual_shared, results, now, existing_countries, messages,
                   email_countries, calendar_countries, candidates, hist>>

\* After a parser returned: the count of its results, the forced write and
\* the aggregation (a raising aggregation leaves the map empty).
DualScanDone(j, at, scanned, next) ==
    /\ pc[j] = at
    /\ progress' = [progress EXCEPT ![j][scanned] = Len(parsed[j])]
    /\ last_update_time' = [last_update_time EXCEPT ![j] = now]
    /\ job' = DualUpdate(j, [progress |-> progress'[j], updated_at |-> now])
    /\ IF scanned = "emails_scanned"
       THEN /\ email_countries' = [email_countries EXCEPT ![j] =
                                      job_aggregate_email_countries(parsed[j]).value]
            /\ UNCHANGED calendar_countries
       ELSE /\ calendar_countries' = [calendar_countries EXCEPT ![j] =
                                         job_aggregate_calendar_countries(parsed[j]).value]
            /\ UNCHANGED email_countries
    /\ messages' = [messages EXCEPT ![j] = <<>>]
    /\ idx' = [idx EXCEPT ![j] = 0]
    /\ parsed' = [parsed EXCEPT ![j] = <<>>]
    /\ pc' = [pc EXCEPT ![j] = next]
    /\ UNCHANGED <<dual_shared, results, now, existing_countries, candidates, hist>>

\* The label of the last phase, its forced write and _build_candidates.
DualBuild(j) ==
    /\ pc[j] = "processing_label"
    /\ progress' = [progress EXCEPT ![j].current_step = "aggregating_results"]
    /\ last_update_time' = [last_update_time EXCEPT ![j] = now]
    /\ job' = DualUpdate(j, [progress |-> progress'[j], updated_at |-> now])
    /\ \E order \in Orders(Codes) :
          /\ candidates' = [candidates EXCEPT ![j] =
                               build_candidates(email_countries[j], calendar_countries[j],
                                                existing_countries[j], order)]
          /\ hist' = [hist EXCEPT !.inputs[j].order = order]
    /\ pc' = [pc EXCEPT ![j] = "store_results"]
    /\ UNCHANGED <<dual_shared, results, now, existing_countries, messages, idx,
                   parsed, email_countries, calendar_countries>>

\* db_service.store_import_results(user_id, job_id, ...)
DualStoreResults(j) ==
    /\ pc[j] = "store_results"
    /\ results' = [results EXCEPT ![JobKey(j)] =
                      store_import_results(
                          [candidates |-> candidates[j],
                           scanned_emails |-> progress[j].emails_scanned,
                           scanned_events |-> progress[j].events_scanned])]
    /\ pc' = [pc EXCEPT ![j] = "mark_completed"]
    /\ UNCHANGED <<dual_shared, job, progress, last_update_time, now,
                   existing_countries, messages, idx, parsed, email_countries,
                   calendar_countries, candidates, hist>>

\* The COMPLETED write.
DualCompleted(j) ==
    /\ pc[j] = "mark_completed"
    /\ job' = DualUpdate(j, [status |-> COMPLETED, completed_at |-> <<now>>,
                             candidates_count |-> Len(candidates[j]),
                             scanned_emails |-> progress[j].emails_scanned,
                             scanned_events |-> progress[j].events_scanned,
                             progress |-> progress[j]])
    /\ pc' = [pc EXCEPT ![j] = "done"]
    /\ UNCHANGED <<dual_shared, results, progress, last_update_time, now,
                   existing_countries, messages, idx, parsed, email_countries,
                   calendar_countries, candidates, hist>>

\* A second passes while a parser of some job runs.
DualTick ==
    /\ \E j \in JobIds : pc[j] \in {"emails_loop", "calendar_loop"}
    /\ now < UpdateInterval + MaxDualTime
    /\ now' = now + 1
    /\ UNCHANGED <<dual_shared, job, results, pc, progress, last_update_time,
                   existing_countries, messages, idx, parsed, email_countries,
                   calendar_countries, candidates, hist>>

DualProcess(j) ==
    \/ DualGetExisting(j)
    \/ DualStatus(j, "emails_status", SCANNING_EMAILS, "emails_label")
    \/ DualLabel(j, "emails_label", "scanning_emails", "emails_search")
    \/ DualSearch(j, "emails_search", DualMail, "emails", "emails_loop", "emails_done")
    \/ DualItem(j, "emails_loop", "emails_scanned", "emails_total", "emails_done")
    \/ DualScanDone(j, "emails_done", "emails_scanned", "calendar_status")
    \/ DualStatus(j, "calendar_status", SCANNING_CALENDAR, "calendar_label")
    \/ DualLabel(j, "calendar_label", "scanning_calendar", "calendar_fetch")
    \/ DualSearch(j, "calendar_fetch", DualEvents, "events", "calendar_loop", "calendar_done")
    \/ DualItem(j, "calendar_loop", "events_scanned", "events_total", "calendar_done")
    \/ DualScanDone(j, "calendar_done", "events_scanned", "processing_status")
    \/ DualStatus(j, "processing_status", PROCESSING, "processing_label")
    \/ DualBuild(j)
    \/ DualStoreResults(j)
    \/ DualCompleted(j)

DualNext ==
    \/ \E j \in JobIds : DualStart(j)
    \/ \E j \in JobIds : DualProcess(j)
    \/ DualTick

DualSpec == DualInit /\ [][DualNext]_vars

\* The items of a list that hold a country: the results of a parser.
Kept(items) == SelectSeq(items, LAMBDA item : item.countries # {})

\* The candidates a job builds when it runs alone on the given source
\* outputs and visited set.
AloneCandidates(inputs) ==
    build_candidates(job_aggregate_email_countries(Kept(inputs.emails)).value,
                     job_aggregate_calendar_countries(Kept(inputs.events)).value,
                     inputs.existing, inputs.order)

\* The variables of the processor of job j.
ProcessorState(j) ==
    <<pc[j], progress[j], last_update_time[j], existing_countries[j], messages[j],
      idx[j], parsed[j], email_countries[j], calendar_countries[j], candidates[j]>>

C29_CountersConsistent ==
    /\ HasJob =>
          /\ job.progress.emails_scanned <= job.progress.emails_total
          /\ job.progress.events_scanned <= job.progress.events_total
    /\ (HasJob /\ job.status = COMPLETED /\ HasResults) =>
          /\ job.scanned_emails = results.scanned_emails
          /\ job.scanned_events = results.scanned_events
          /\ job.candidates_count = Len(results.candidates)

\* C29 witness: a COMPLETED job with stored results whose email scan dropped
\* one of two messages and which found a candidate.
C29_Witness ==
    /\ HasJob
    /\ job.status = COMPLETED
    /\ HasResults
    /\ job.progress.emails_total = 2
    /\ job.scanned_emails = 1
    /\ job.candidates_count >= 1

(***************************************************************************)
(* The label of the persisted progress                                     *)
(***************************************************************************)
\* The label the claim gives to a status.
LabelOf(status) ==
    CASE status = PENDING -> "initializing"
      [] status = SCANNING_EMAILS -> "scanning_emails"
      [] status = SCANNING_CALENDAR -> "scanning_calendar"
      [] status = PROCESSING -> "aggregating_results"
      [] status = COMPLETED -> "aggregating_results"

\* C30 (as claimed): in every persisted job record with a status other than
\* FAILED the progress label is the label of the status, so that no poll of
\* the record returns a status with the label of the phase before it.
C30_LabelAgreesWithStatus ==
    /\ (HasJob /\ job.status # FAILED) => job.progress.current_step = LabelOf(job.status)
    /\ (get_scan_status.code = 200 /\ get_scan_status.status # FAILED)
          => get_scan_status.progress.current_step = LabelOf(get_scan_status.status)

====
